---- MODULE Spec2Model ----
(***************************************************************************)
(* illumiterm: one terminal window hosting one child process.              *)
(*                                                                         *)
(* The model follows src/src/illumiterm.c: the session created by          *)
(* command_line, the asynchronous spawn and its completion callback        *)
(* child_ready, the child-exited handler, the delete-event handler         *)
(* confirm_exit with its modal dialog, the File > Close Window menu item,  *)
(* and the control+shift key commands that change font scale and window    *)
(* size.  Every handler runs on the single GTK main-loop thread, so each   *)
(* handler is one atomic action; the only handler that is split is         *)
(* confirm_exit, which blocks inside gtk_dialog_run while the nested main  *)
(* loop keeps dispatching other callbacks.                                 *)
(*                                                                         *)
(* Spec is the whole program for the invocation without options.           *)
(* SpecKeys is the key handler with every key event kept in key_event.     *)
(* SpecSpawn is the session lifecycle for every option and environment of  *)
(* the invocation, where argv and envv of the spawn request matter.        *)
(* SpecScale is the font scale of the terminal alone, followed up to and   *)
(* past the limits the terminal keeps it within.                           *)
(***************************************************************************)
EXTENDS Integers, Sequences, FiniteSets, TLC

\* ------------------------------------------------------------------ bounds
\* |zoom steps| the key commands may accumulate (the code has no clamp).
MaxZoom == 2
\* |zoom-ins minus zoom-outs| followed when the font scale alone is studied
MaxNet == 14

\* -------------------------------------------------------- program constants
default_width == 640
default_height == 460
KeycodeIncrease == 21
KeycodeDecrease == 20
KeycodeReset == 19

\* limits VteTerminal keeps its font-scale property within, and scale 1.0,
\* in millionths
FontScaleMin == 250000
FontScaleMax == 4000000
FontScaleOne == 1000000

\* ------------------------------------------------------------ input domains
NULL == "NULL"

\* wait statuses a child-exited notification may carry
ExitStatuses == {0, 1, 2}
\* GError codes a failed spawn may carry
ErrorCodes == {3, 4}
\* process identifiers of a successful spawn
ValidPids == {7}
\* values of the pid argument that are no process identifier: the handler's
\* comment documents 0, VTE documents -1
InvalidPids == {0 - 1, 0}

\* gtk_dialog_run results: the two buttons, a dismissal of the dialog
\* (delete-event, e.g. the Escape key binding of GtkDialog), dialog destroyed
Responses == {"GTK_RESPONSE_NO", "GTK_RESPONSE_YES",
              "GTK_RESPONSE_DELETE_EVENT", "GTK_RESPONSE_NONE"}

\* modifier bits of a key event; the default accelerator mask leaves out lock
Modifiers == {"control", "shift", "mod1", "lock"}
default_mod_mask == {"control", "shift", "mod1"}
Keycodes == {KeycodeReset, KeycodeDecrease, KeycodeIncrease, 54}
Keyvals == {"c", "C", "v", "V", "x"}

\* sizes the window may report, each with the grid the terminal then reports
Grids == <<[rows |-> 24, columns |-> 80], [rows |-> 30, columns |-> 100]>>
WinSizes == <<[width |-> 640, height |-> 460], [width |-> 820, height |-> 600]>>
\* the cell size, at scale 1.0, of the font at a pango size
BaseCell(size) == [width |-> size \div 1280, height |-> size \div 640]
\* no key pressed yet
NoKey == [state |-> {}, keycode |-> 0, keyval |-> "none"]
\* pango size of the terminal font
FontSizes == {10240}
\* values of the "cmd" option; NULL when the option is absent
Commands == {NULL, "echo hi"}
\* environments of the invocation, each an array of NAME=value entries
Environs ==
    <<  <<[name |-> "SHELL", value |-> "/bin/bash"],
          [name |-> "TERM", value |-> "xterm"]>>,
        <<[name |-> "TERM", value |-> "xterm"],
          [name |-> "SHELL", value |-> "/bin/zsh"]>>,
        <<[name |-> "TERM", value |-> "xterm"]>>  >>
\* the null pointer in an array of string addresses
NullAddr == 0
\* a heap cell once its string is freed
Freed == [live |-> FALSE, val |-> [name |-> "", value |-> ""]]
\* no spawn requested yet
NoRequest == [argv |-> <<>>, envv |-> <<>>, envp |-> <<>>]

\* ------------------------------------------------------------------- state
VARIABLES
    window,       \* "none" | "shown" | "destroyed"      the GtkWindow
    window_cli,   \* NULL | "cli"       data stored on the window under "cli"
    cli_status,   \* exit status stored on the GApplicationCommandLine
    log,          \* effects on cli and window, in program order
    spawn,        \* "none" | "pending" | "done"  the vte_terminal_spawn_async
    spawns,       \* number of spawn requests issued
    ready_pid,    \* {} until the spawn completes, then {pid given to child_ready}
    child,        \* "none" | "live" | "exited"   the child process
    outcome,      \* last SpawnFailed / ChildExited notification delivered
    dialog,       \* "none" | "open"    the "Confirm close" dialog
    gate,         \* last value returned by confirm_exit
    response,     \* last gtk_dialog_run result
    ended_by,     \* handler that destroyed the window or ended the process
    process,      \* "running" | "exited"         the host process
    exit_code,    \* exit code of the host process (read once it has exited)
    font_scale,   \* zoom exponent k: the VTE font scale is 1.125^k
    font_size,    \* pango size of the font description
    win_size,     \* [width, height] of the window
    grid,         \* [rows, columns] of the terminal
    offsets,      \* [owidth, oheight] last computed by a resize operation
    requests,     \* gtk_window_resize calls of the last key command
    handled,      \* return value of the last key_press_event
    key_event,    \* [state, keycode, keyval] of the last key press, if recorded
    heap,         \* strings on the heap: address -> [live, val]
    cli_command,  \* "cmd" option of the invocation, NULL when absent
    cli_environ,  \* environment of the invocation: addresses, NullAddr last
    spawn_request, \* [argv, envv, envp] handed to vte_terminal_spawn_async
    vte_font_scale,  \* font scale the terminal holds: anchor * 1.125^k
    scale_requested, \* argument of the last vte_terminal_set_font_scale
    zoom_net         \* zoom-ins minus zoom-outs since scale 1.0

lifecycle == <<window, window_cli, cli_status, log, spawn, spawns, ready_pid,
               child, outcome, ended_by, process, exit_code>>
gatevars == <<dialog, gate, response>>
geometry == <<font_scale, font_size, win_size, grid, offsets, requests,
              handled, key_event>>
request == <<heap, cli_command, cli_environ, spawn_request>>
scaling == <<vte_font_scale, scale_requested, zoom_net>>
vars == <<lifecycle, gatevars, geometry, request, scaling>>

NoOutcome == [kind |-> "none", value |-> 0]
\* the GError* argument of child_ready
NoError == [null |-> TRUE, code |-> 0]
GError(code) == [null |-> FALSE, code |-> code]

\* --------------------------------------------------------------- helpers
RECURSIVE Count(_, _)
Count(s, e) ==
    IF s = <<>> THEN 0
    ELSE (IF Head(s) = e THEN 1 ELSE 0) + Count(Tail(s), e)

RECURSIVE Pow(_, _)
Pow(b, n) == IF n = 0 THEN 1 ELSE b * Pow(b, n - 1)

Max(a, b) == IF a >= b THEN a ELSE b

\* a cell dimension at zoom exponent k: base * 1.125^k, rounded, at least 1
ScaleCell(base, k) ==
    IF k >= 0
    THEN Max(1, (2 * base * Pow(9, k) + Pow(8, k)) \div (2 * Pow(8, k)))
    ELSE Max(1, (2 * base * Pow(8, 0 - k) + Pow(9, 0 - k)) \div (2 * Pow(9, 0 - k)))

\* ------------------------------------------------------ teardown (l. 47-98)
\* The part of the state the teardown functions write.
Effects == [cli_status |-> cli_status, log |-> log, window |-> window]

Commit(s) ==
    /\ cli_status' = s.cli_status
    /\ log' = s.log
    /\ window' = s.window

set_exit_status(cli, status, s) ==
    IF cli # NULL
    THEN [s EXCEPT !.cli_status = status,
                   !.log = @ \o <<"set_exit_status", "unref">>]
    ELSE s

destroy_window(s) ==
    [s EXCEPT !.window = "destroyed", !.log = Append(@, "destroy")]

\* destroy_and_quit that destroys the window before it reports the status
destroy_and_quit_window_first(status, s) ==
    set_exit_status(window_cli, status, destroy_window(s))

destroy_and_quit(status, s) ==
    destroy_window(set_exit_status(window_cli, status, s))

handle_child_exit(status, s) == destroy_and_quit(status, s)

\* child_exited routed through the close-confirmation prompt instead of
\* handle_child_exit
child_exited_via_gate(status) ==
    /\ process = "running"
    /\ window = "shown"
    /\ child = "live"
    /\ child' = "exited"
    /\ outcome' = [kind |-> "ChildExited", value |-> status]
    /\ dialog' = "open"
    /\ UNCHANGED <<gate, response, geometry, request, scaling>>
    /\ UNCHANGED <<window, window_cli, cli_status, log, spawn, spawns,
                   ready_pid, ended_by, process, exit_code>>

\* child-exited signal of the terminal.  The handler is connected on the
\* terminal widget (connect_child_exited_signal), which lives in the window:
\* once the window is destroyed the signal is no longer delivered.
child_exited(status) ==
    /\ process = "running"
    /\ window = "shown"
    /\ child = "live"
    /\ child' = "exited"
    /\ outcome' = [kind |-> "ChildExited", value |-> status]
    /\ Commit(handle_child_exit(status, Effects))
    /\ ended_by' = "child_exited"
    /\ UNCHANGED <<window_cli, spawn, spawns, ready_pid, process, exit_code>>
    /\ UNCHANGED <<gatevars, geometry, request, scaling>>

\* ------------------------------------------------ spawn (l. 501-617, 1069-)
\* command_line: window and terminal are created, the context is stored on
\* the window and referenced, and the spawn is requested.

\* number of entries before the terminating null
g_strv_length(array) ==
    (CHOOSE i \in DOMAIN array :
        /\ array[i] = NullAddr
        /\ \A j \in 1..(i - 1) : array[j] # NullAddr) - 1

\* the strings an array of addresses points to, up to the terminating null
g_strv_contents(h, array) ==
    [i \in 1..g_strv_length(array) |-> h[array[i]].val]

\* every string of the array is freed
g_strfreev(h, array) ==
    [a \in DOMAIN h |->
        IF \E i \in 1..g_strv_length(array) : array[i] = a
        THEN Freed ELSE h[a]]

\* value of the first entry called name, NULL when there is none
g_application_command_line_getenv(h, environment, name) ==
    LET contents == g_strv_contents(h, environment)
        hits == {i \in DOMAIN contents : contents[i].name = name}
    IN  IF hits = {} THEN NULL
        ELSE contents[CHOOSE i \in hits : \A j \in hits : i <= j].value

\* get_environment that copies the pointers, not the strings
get_environment_shallow(h, environment) ==
    LET num == g_strv_length(environment)
    IN  [heap |-> h,
         result |-> [i \in 1..(num + 1) |->
                        IF i <= num THEN environment[i] ELSE NullAddr]]

\* [heap, result]: g_strdup puts each copy in a fresh cell
get_environment(h, environment) ==
    LET num == g_strv_length(environment)
    IN  [heap |-> h \o [i \in 1..num |-> h[environment[i]]],
         result |-> [i \in 1..(num + 1) |->
                        IF i <= num THEN Len(h) + i ELSE NullAddr]]

\* the cmd array with the option passed to the shell behind "-c"
spawn_cmd_dash_c(command, shell) ==
    IF command # NULL THEN <<"/bin/sh", "-c", command, NULL>>
    ELSE <<shell, NULL>>

\* the compound literal assigned to cmd, its terminating NULL included
spawn_cmd(command, shell) ==
    IF command # NULL THEN <<"/bin/sh", command, NULL>>
    ELSE <<shell, NULL>>

\* the argument vector a NULL-terminated array denotes
spawn_argv(cmd) ==
    LET first == CHOOSE i \in DOMAIN cmd :
                    cmd[i] = NULL /\ \A j \in 1..(i - 1) : cmd[j] # NULL
    IN  SubSeq(cmd, 1, first - 1)

\* h and environment are the heap and the environment array of the
\* invocation.  vte_terminal_spawn_async takes its own copy of argv and envv
\* before it returns; the function then frees its environment copy.
spawn_vte_terminal(command, h, environment) ==
    LET e == get_environment(h, environment)
        cmd == spawn_cmd(command,
                   g_application_command_line_getenv(h, environment, "SHELL"))
    IN  /\ spawn' = "pending"
        /\ spawns' = spawns + 1
        /\ spawn_request' = [argv |-> spawn_argv(cmd),
                             envv |-> g_strv_contents(e.heap, e.result),
                             envp |-> e.result]
        /\ heap' = g_strfreev(e.heap, e.result)

\* environ is the environment the invocation carries, command its option
command_line(size, newgrid, command, environ) ==
    /\ process = "running"
    /\ window = "none"
    /\ window' = "shown"
    /\ window_cli' = "cli"
    /\ log' = Append(log, "ref")
    /\ font_size' = size
    /\ win_size' = [width |-> default_width, height |-> default_height]
    /\ grid' = newgrid
    /\ cli_command' = command
    /\ cli_environ' = [i \in 1..(Len(environ) + 1) |->
                          IF i <= Len(environ) THEN i ELSE NullAddr]
    /\ spawn_vte_terminal(command,
                          [i \in 1..Len(environ) |->
                              [live |-> TRUE, val |-> environ[i]]],
                          cli_environ')
    /\ UNCHANGED <<cli_status, ready_pid, child, outcome, ended_by, process,
                   exit_code>>
    /\ UNCHANGED <<gatevars, font_scale, offsets, requests, handled,
                   key_event, scaling>>

\* child_ready without its "if (!terminal) return": a completion that arrives
\* after the terminal is gone still tears down.
child_ready_unchecked(terminal, pid, error) ==
    /\ process = "running"
    /\ spawn = "pending"
    /\ spawn' = "done"
    /\ ready_pid' = {pid}
    /\ child' = IF pid \in ValidPids THEN "live" ELSE child
    /\ outcome' = IF ~error.null
                  THEN [kind |-> "SpawnFailed", value |-> error.code]
                  ELSE outcome
    /\ IF pid = 0
       THEN /\ Commit(destroy_and_quit(error.code, Effects))
            /\ ended_by' = "child_ready"
       ELSE UNCHANGED <<cli_status, log, window, ended_by>>
    /\ UNCHANGED <<window_cli, spawns, process, exit_code>>
    /\ UNCHANGED <<gatevars, geometry, request, scaling>>

\* child_ready that answers a failed spawn with a second spawn request
child_ready_retry(terminal, pid, error) ==
    /\ process = "running"
    /\ spawn = "pending"
    /\ ready_pid' = {pid}
    /\ child' = IF pid \in ValidPids THEN "live" ELSE child
    /\ outcome' = IF ~error.null
                  THEN [kind |-> "SpawnFailed", value |-> error.code]
                  ELSE outcome
    /\ IF terminal # NULL /\ pid = 0 /\ spawns < 3
       THEN spawn_vte_terminal(cli_command, heap, cli_environ)
       ELSE spawn' = "done" /\ UNCHANGED <<spawns, heap, spawn_request, scaling>>
    /\ UNCHANGED <<cli_status, log, window, ended_by>>
    /\ UNCHANGED <<window_cli, process, exit_code>>
    /\ UNCHANGED <<gatevars, geometry, cli_command, cli_environ, scaling>>

\* Completion callback of the spawn.  terminal is NULL when the terminal was
\* destroyed before the completion; error is set exactly when pid is no
\* process identifier.
child_ready(terminal, pid, error) ==
    /\ process = "running"
    /\ spawn = "pending"
    /\ spawn' = "done"
    /\ ready_pid' = {pid}
    /\ child' = IF pid \in ValidPids THEN "live" ELSE child
    /\ outcome' = IF ~error.null
                  THEN [kind |-> "SpawnFailed", value |-> error.code]
                  ELSE outcome
    /\ IF terminal # NULL /\ pid = 0
       THEN /\ Commit(destroy_and_quit(error.code, Effects))
            /\ ended_by' = "child_ready"
       ELSE UNCHANGED <<cli_status, log, window, ended_by>>
    /\ UNCHANGED <<window_cli, spawns, process, exit_code>>
    /\ UNCHANGED <<gatevars, geometry, request, scaling>>

\* ------------------------------------------- confirmation gate (l. 341-408)
\* get_confirm_response with the comparison turned round
get_confirm_response_inverted(r) ==
    IF r = "GTK_RESPONSE_NO" THEN FALSE ELSE TRUE

\* TRUE = cancel the close, FALSE = proceed
get_confirm_response(r) ==
    IF r = "GTK_RESPONSE_NO" THEN TRUE ELSE FALSE

\* delete-event on the window: confirm_exit creates the dialog and blocks in
\* gtk_dialog_run.  While the modal dialog is open the window gets no input.
confirm_exit_begin ==
    /\ process = "running"
    /\ window = "shown"
    /\ dialog = "none"
    /\ dialog' = "open"
    /\ UNCHANGED <<gate, response, lifecycle, geometry, request, scaling>>

\* confirm_exit_end whose FALSE destroys the window whether or not it still
\* exists
confirm_exit_end_destroying(r) ==
    /\ process = "running"
    /\ dialog = "open"
    /\ dialog' = "none"
    /\ response' = r
    /\ gate' = IF get_confirm_response(r) THEN "cancel" ELSE "proceed"
    /\ IF get_confirm_response(r)
       THEN UNCHANGED <<window, log, ended_by>>
       ELSE /\ window' = "destroyed"
            /\ log' = Append(log, "destroy")
            /\ ended_by' = IF window = "shown" THEN "delete_event" ELSE ended_by
    /\ UNCHANGED <<window_cli, cli_status, spawn, spawns, ready_pid, child,
                   outcome, process, exit_code>>
    /\ UNCHANGED <<geometry, request, scaling>>

\* gtk_dialog_run returns r; confirm_exit returns get_confirm_response(r).
\* On FALSE the default delete-event handler of GTK destroys the window.  The
\* dialog has no parent window and outlives a teardown; for a window that was
\* destroyed while the handler ran, GTK takes the event as handled whatever
\* the handler returns.
confirm_exit_end(r) ==
    /\ process = "running"
    /\ dialog = "open"
    /\ dialog' = "none"
    /\ response' = r
    /\ gate' = IF get_confirm_response(r) THEN "cancel" ELSE "proceed"
    /\ IF get_confirm_response(r) \/ window # "shown"
       THEN UNCHANGED <<window, log, ended_by>>
       ELSE /\ window' = "destroyed"
            /\ log' = Append(log, "destroy")
            /\ ended_by' = "delete_event"
    /\ UNCHANGED <<window_cli, cli_status, spawn, spawns, ready_pid, child,
                   outcome, process, exit_code>>
    /\ UNCHANGED <<geometry, request, scaling>>

\* File > Close Window
on_close_window_activate ==
    /\ process = "running"
    /\ window = "shown"
    /\ dialog = "none"
    /\ process' = "exited"
    /\ exit_code' = 0
    /\ window' = "destroyed"
    /\ ended_by' = "close_window"
    /\ UNCHANGED <<window_cli, cli_status, log, spawn, spawns, ready_pid, child,
                   outcome>>
    /\ UNCHANGED <<gatevars, geometry, request, scaling>>

\* g_application_run returns once the context was released (its "application"
\* data releases the hold taken in command_line) and no nested loop runs.
run_application ==
    /\ process = "running"
    /\ Count(log, "unref") >= 1
    /\ dialog = "none"
    /\ process' = "exited"
    /\ exit_code' = cli_status
    /\ UNCHANGED <<window, window_cli, cli_status, log, spawn, spawns,
                   ready_pid, child, outcome, ended_by>>
    /\ UNCHANGED <<gatevars, geometry, request, scaling>>

\* ------------------------------------------------- font scale (l. 123-185)
\* A font scale is kept exactly, as anchor * 1.125^k with anchor one of 1.0,
\* the upper limit and the lower limit of the terminal: [anchor, k].
ScaleOne == [anchor |-> "one", k |-> 0]
ScaleMax == [anchor |-> "max", k |-> 0]
ScaleMin == [anchor |-> "min", k |-> 0]

\* number of multiplications by 1.125 that keep x, in millionths, within limit
RECURSIVE StepsWithin(_, _)
StepsWithin(x, limit) ==
    IF (x * 9) \div 8 > limit THEN 0
    ELSE 1 + StepsWithin((x * 9) \div 8, limit)

\* s > upper limit, s < lower limit
AboveMax(s) ==
    CASE s.anchor = "one" -> s.k > StepsWithin(FontScaleOne, FontScaleMax)
      [] s.anchor = "max" -> s.k > 0
      [] s.anchor = "min" -> s.k > StepsWithin(FontScaleMin, FontScaleMax)

BelowMin(s) ==
    CASE s.anchor = "one" -> 0 - s.k > StepsWithin(FontScaleOne, FontScaleMax)
      [] s.anchor = "max" -> 0 - s.k > StepsWithin(FontScaleMin, FontScaleMax)
      [] s.anchor = "min" -> s.k < 0

\* requested_font_scale that applies the factor twice
requested_font_scale_twice(scale, factor) ==
    [scale EXCEPT !.k = @ + 2 * factor]

\* scale * factor, factor being +1 for 1.125 and -1 for 1.0 / 1.125
requested_font_scale(scale, factor) == [scale EXCEPT !.k = @ + factor]

\* the terminal stores the scale clamped to its limits
vte_terminal_set_font_scale(scale) ==
    IF AboveMax(scale) THEN ScaleMax
    ELSE IF BelowMin(scale) THEN ScaleMin
    ELSE scale

\* adjust_font_scale on the terminal alone
adjust_font_scale_of_terminal(factor) ==
    /\ process = "running"
    /\ window = "shown"
    /\ dialog = "none"
    /\ zoom_net + factor <= MaxNet
    /\ zoom_net + factor >= 0 - MaxNet
    /\ scale_requested' = requested_font_scale(vte_font_scale, factor)
    /\ vte_font_scale' = vte_terminal_set_font_scale(scale_requested')
    /\ zoom_net' = zoom_net + factor
    /\ UNCHANGED <<lifecycle, gatevars, geometry, request>>

\* reset_font_scale on the terminal alone
reset_font_scale_of_terminal ==
    /\ process = "running"
    /\ window = "shown"
    /\ dialog = "none"
    /\ scale_requested' = ScaleOne
    /\ vte_font_scale' = vte_terminal_set_font_scale(ScaleOne)
    /\ zoom_net' = 0
    /\ UNCHANGED <<lifecycle, gatevars, geometry, request>>

\* ----------------------------------------------------- geometry (l. 100-290)
\* The geometry functions work on the record
\*   [font_scale, font_size, win_size, grid, offsets, requests]
\* offsets is the container size last computed (owidth, oheight), requests
\* the gtk_window_resize calls of the running handler, in program order.

\* cell metrics of the terminal font at a pango size and a zoom exponent
get_char_metrics(size, scale) ==
    [char_width |-> ScaleCell(BaseCell(size).width, scale),
     char_height |-> ScaleCell(BaseCell(size).height, scale)]

get_terminal_dimensions(g) ==
    [rows |-> g.grid.rows, columns |-> g.grid.columns,
     char_width |-> get_char_metrics(g.font_size, g.font_scale).char_width,
     char_height |-> get_char_metrics(g.font_size, g.font_scale).char_height]

get_container_dimensions(size, d) ==
    [owidth |-> size.width - d.char_width * d.columns,
     oheight |-> size.height - d.char_height * d.rows]

\* factor is +1 for 1.125 and -1 for 1.0 / 1.125
adjust_font_scale(g, factor) ==
    [g EXCEPT !.font_scale = @ + factor]

\* the window takes the requested size
gtk_window_resize(g, width, height) ==
    [g EXCEPT !.win_size = [width |-> width, height |-> height],
              !.requests = Append(@, [width |-> width, height |-> height])]

adjust_terminal_size(g, d, o) ==
    gtk_window_resize(g, d.columns * d.char_width + o.owidth,
                         d.rows * d.char_height + o.oheight)

\* adjust_font_size that measures the container after the scale change
adjust_font_size_stale(g, factor) ==
    LET g1 == adjust_font_scale(g, factor)
        d1 == get_terminal_dimensions(g1)
        o == get_container_dimensions(g1.win_size, d1)
    IN  adjust_terminal_size([g1 EXCEPT !.offsets = o], d1, o)

adjust_font_size(g, factor) ==
    LET d0 == get_terminal_dimensions(g)
        o == get_container_dimensions(g.win_size, d0)
        g1 == adjust_font_scale([g EXCEPT !.offsets = o], factor)
        d1 == get_terminal_dimensions(g1)
    IN  adjust_terminal_size(g1, d1, o)

increase_font_size(g) == adjust_font_size(g, 1)

decrease_font_size(g) == adjust_font_size(g, 0 - 1)

reset_font_scale(g) == [g EXCEPT !.font_scale = 0]

\* reset_font_description_size that stores the size at the scale in effect
reset_font_description_size_scaled(g, size) ==
    [g EXCEPT !.font_size = (size * 9) \div 8]

reset_font_description_size(g, size) ==
    [g EXCEPT !.font_size = size]

\* resize_terminal_window that adds the offsets of the last zoom instead of
\* measuring the window
resize_terminal_window_kept_offsets(g, char_width, char_height) ==
    gtk_window_resize(g, g.grid.columns * char_width + g.offsets.owidth,
                         g.grid.rows * char_height + g.offsets.oheight)

resize_terminal_window(g, char_width, char_height) ==
    LET rows == g.grid.rows
        columns == g.grid.columns
        owidth == g.win_size.width - char_width * columns
        oheight == g.win_size.height - char_height * rows
    IN  gtk_window_resize([g EXCEPT !.offsets = [owidth |-> owidth,
                                                 oheight |-> oheight]],
                          columns * char_width + owidth,
                          rows * char_height + oheight)

reset_font_size(g) ==
    LET default_font_size == g.font_size
        g1 == reset_font_description_size(reset_font_scale(g), default_font_size)
        m == get_char_metrics(g1.font_size, g1.font_scale)
    IN  resize_terminal_window(g1, m.char_width, m.char_height)

\* reset_window_size with the default width and height exchanged
reset_window_size_swapped(g) ==
    gtk_window_resize(g, default_height, default_width)

reset_window_size(g) ==
    gtk_window_resize(g, default_width, default_height)

\* gdk_keyval_to_lower left out
gdk_keyval_to_lower_identity(keyval) == keyval

gdk_keyval_to_lower(keyval) ==
    CASE keyval = "C" -> "c"
      [] keyval = "V" -> "v"
      [] OTHER -> keyval

\* [g, handled] after key_press_event
key_press_result(g, state, keycode, keyval) ==
    IF (state \cap default_mod_mask) = {"control", "shift"}
    THEN CASE keycode = KeycodeIncrease ->
                [g |-> increase_font_size(g), handled |-> TRUE]
           [] keycode = KeycodeDecrease ->
                [g |-> decrease_font_size(g), handled |-> TRUE]
           [] keycode = KeycodeReset ->
                [g |-> reset_window_size(reset_font_size(g)), handled |-> TRUE]
           [] OTHER ->
                IF gdk_keyval_to_lower(keyval) \in {"c", "v"}
                THEN [g |-> g, handled |-> TRUE]
                ELSE [g |-> g, handled |-> FALSE]
    ELSE [g |-> g, handled |-> FALSE]

\* the geometry at the start of a handler: no resize requested yet
Geometry == [font_scale |-> font_scale, font_size |-> font_size,
             win_size |-> win_size, grid |-> grid, offsets |-> offsets,
             requests |-> <<>>]

\* key_press_event in which control+shift+x asks for the window to be closed
key_press_event_closing(state, keycode, keyval) ==
    /\ process = "running"
    /\ window = "shown"
    /\ dialog = "none"
    /\ LET r == key_press_result(Geometry, state, keycode, keyval)
       IN  /\ r.g.font_scale >= 0 - MaxZoom
           /\ r.g.font_scale <= MaxZoom
           /\ font_scale' = r.g.font_scale
           /\ font_size' = r.g.font_size
           /\ win_size' = r.g.win_size
           /\ offsets' = r.g.offsets
           /\ requests' = r.g.requests
           /\ handled' = r.handled
    /\ dialog' = IF (state \cap default_mod_mask) = {"control", "shift"}
                    /\ keyval = "x"
                 THEN "open" ELSE dialog
    /\ UNCHANGED <<lifecycle, gate, response, grid, request, scaling>>

\* key-press-event of the terminal, delivered while the window has the focus
key_press_event(state, keycode, keyval) ==
    /\ process = "running"
    /\ window = "shown"
    /\ dialog = "none"
    /\ LET r == key_press_result(Geometry, state, keycode, keyval)
       IN  /\ r.g.font_scale >= 0 - MaxZoom
           /\ r.g.font_scale <= MaxZoom
           /\ font_scale' = r.g.font_scale
           /\ font_size' = r.g.font_size
           /\ win_size' = r.g.win_size
           /\ offsets' = r.g.offsets
           /\ requests' = r.g.requests
           /\ handled' = r.handled
    /\ UNCHANGED <<lifecycle, gatevars, grid, request, scaling>>

\* The user resizes the window: the window reports a new size and the
\* terminal a new grid (gtk_window_get_size, vte_terminal_get_row_count and
\* vte_terminal_get_column_count read them).
configure_event(size, newgrid) ==
    /\ process = "running"
    /\ window = "shown"
    /\ dialog = "none"
    /\ win_size' = size
    /\ grid' = newgrid
    /\ UNCHANGED <<font_scale, font_size, offsets, requests, handled,
                   key_event>>
    /\ UNCHANGED <<lifecycle, gatevars, request, scaling>>

\* ------------------------------------------------------------ specification
Init ==
    /\ window = "none"
    /\ window_cli = NULL
    /\ cli_status = 0
    /\ log = <<>>
    /\ spawn = "none"
    /\ spawns = 0
    /\ ready_pid = {}
    /\ child = "none"
    /\ outcome = NoOutcome
    /\ dialog = "none"
    /\ gate = "unasked"
    /\ response = "none"
    /\ ended_by = "none"
    /\ process = "running"
    /\ exit_code = 0
    /\ font_scale = 0
    /\ font_size = 0
    /\ win_size = [width |-> 0, height |-> 0]
    /\ grid = [rows |-> 0, columns |-> 0]
    /\ offsets = [owidth |-> 0, oheight |-> 0]
    /\ requests = <<>>
    /\ key_event = NoKey
    /\ handled = FALSE
    /\ heap = <<>>
    /\ cli_command = NULL
    /\ cli_environ = <<NullAddr>>
    /\ spawn_request = NoRequest
    /\ vte_font_scale = ScaleOne
    /\ scale_requested = ScaleOne
    /\ zoom_net = 0

\* the invocation without options from a login environment
CommandLine ==
    \E size \in FontSizes : command_line(size, Grids[1], NULL, Environs[1])

\* an invocation with any option and any environment
CommandLineAny ==
    \E size \in FontSizes, command \in Commands, i \in DOMAIN Environs :
        command_line(size, Grids[1], command, Environs[i])

ChildReady ==
    \E pid \in ValidPids \cup InvalidPids, code \in ErrorCodes :
        child_ready(IF window = "shown" THEN "terminal" ELSE NULL,
                    pid,
                    IF pid \in ValidPids THEN NoError ELSE GError(code))

ChildExited == \E status \in ExitStatuses : child_exited(status)

DeleteEvent == confirm_exit_begin

DialogResponse == \E r \in Responses : confirm_exit_end(r)

CloseWindowActivate == on_close_window_activate

KeyPress ==
    \E state \in SUBSET Modifiers, keycode \in Keycodes, keyval \in Keyvals :
        key_press_event(state, keycode, keyval) /\ UNCHANGED key_event

\* a key press whose event is kept for inspection
KeyPressRecorded ==
    \E state \in SUBSET Modifiers, keycode \in Keycodes, keyval \in Keyvals :
        /\ key_press_event(state, keycode, keyval)
        /\ key_event' = [state |-> state, keycode |-> keycode,
                         keyval |-> keyval]

RunApplicationReturns == run_application

ConfigureEvent ==
    \E i \in DOMAIN WinSizes : configure_event(WinSizes[i], Grids[i])

Next ==
    \/ CommandLine
    \/ ChildReady
    \/ ChildExited
    \/ DeleteEvent
    \/ DialogResponse
    \/ CloseWindowActivate
    \/ KeyPress
    \/ RunApplicationReturns
    \/ ConfigureEvent

Spec == Init /\ [][Next]_vars

\* The key handler on a session that only receives key presses, with every
\* key event recorded.
NextKeys ==
    \/ CommandLine
    \/ ChildReady
    \/ KeyPressRecorded

SpecKeys == Init /\ [][NextKeys]_vars

\* The session lifecycle for every option and environment of the invocation,
\* without key presses and resizes.
NextSpawn ==
    \/ CommandLineAny
    \/ ChildReady
    \/ ChildExited
    \/ DeleteEvent
    \/ DialogResponse
    \/ CloseWindowActivate
    \/ RunApplicationReturns

SpecSpawn == Init /\ [][NextSpawn]_vars

AdjustFontScale ==
    \E factor \in {0 - 1, 1} : adjust_font_scale_of_terminal(factor)

ResetFontScale == reset_font_scale_of_terminal

\* The font scale of the terminal under zooms and resets alone, followed up
\* to the limits of the terminal and past them.
NextScale ==
    \/ CommandLine
    \/ ChildReady
    \/ AdjustFontScale
    \/ ResetFontScale

SpecScale == Init /\ [][NextScale]_vars

\* ------------------------------------------------------------------ claims
Reports == Count(log, "set_exit_status")
Releases == Count(log, "unref")
Destroys == Count(log, "destroy")

\* teardown has completed: status written, reference released, window gone
Terminated == Reports = 1 /\ Releases = 1 /\ window = "destroyed"

\* C1: the exit status is written to the context at most once and the
\* session's reference is released at most once; a signal that arrives after
\* the window was destroyed adds no report and no release and leaves the
\* recorded status alone.
C1_TeardownAtMostOnce ==
    [][ /\ Count(log', "set_exit_status") <= 1
        /\ Count(log', "unref") <= 1
        /\ (window = "destroyed" =>
                /\ Count(log', "set_exit_status") = Reports
                /\ Count(log', "unref") = Releases
                /\ cli_status' = cli_status) ]_vars

\* a close answer arrived after the teardown by child exit: still one report,
\* one release and one destruction
C1_Witness ==
    /\ ended_by = "child_exited"
    /\ gate = "proceed"
    /\ Destroys = 1
    /\ Reports = 1
    /\ Releases = 1

\* C2 (as claimed): whenever the window is destroyed the exit status was
\* reported exactly once and the reference released exactly once.
C2_DestroyedImpliesReportedOnce ==
    window = "destroyed" => (Reports = 1 /\ Releases = 1)

\* C3 (as claimed): when the host process has ended, its exit code is the
\* status of the child-exited notification or the code of the spawn error.
C3_ExitCodeIsOutcome ==
    process = "exited" =>
        /\ outcome.kind \in {"ChildExited", "SpawnFailed"}
        /\ exit_code = outcome.value

\* C4 (as claimed): a user close action (window-manager close or File > Close
\* Window) destroys the window or ends the process only after the prompt
\* returned "proceed".
C4_UserCloseOnlyAfterProceed ==
    ended_by \in {"delete_event", "close_window"} => gate = "proceed"

\* C5: the step in which the prompt is answered "No" returns "cancel" and
\* changes nothing of the session: window, child, reports, reference, font
\* scale and window size keep their values.
C5_NoLeavesSessionUnchanged ==
    [][ (dialog = "open" /\ dialog' = "none" /\ response' = "GTK_RESPONSE_NO")
            => (gate' = "cancel" /\ UNCHANGED <<lifecycle, geometry>>) ]_vars

\* a running, zoomed session whose close request was answered "No"
C5_Witness ==
    /\ response = "GTK_RESPONSE_NO"
    /\ gate = "cancel"
    /\ dialog = "none"
    /\ window = "shown"
    /\ child = "live"
    /\ font_scale = 1
    /\ Reports = 0
    /\ Releases = 0

\* C6 (as claimed): after a close request answered "Yes" while running the
\* session reaches Terminated; so it is never stuck, with no step left to
\* take, short of Terminated.
C6_YesReachesTerminated ==
    (ended_by = "delete_event" /\ response = "GTK_RESPONSE_YES"
        /\ child = "live") =>
        (Terminated \/ ENABLED Next)

\* C7 (as claimed): the gate returned "cancel" exactly when the answer was
\* "No" and "proceed" exactly when it was "Yes".
C7_ProceedOnlyOnYes ==
    /\ (gate = "cancel" <=> response = "GTK_RESPONSE_NO")
    /\ (gate = "proceed" <=> response = "GTK_RESPONSE_YES")

\* C8: the step that delivers a child-exited notification, and the step in
\* which a spawn failure tears the window down, leave the prompt alone (it is
\* neither shown nor answered), destroy the window and report the status of
\* the notification.
C8_TeardownBypassesGate ==
    [][ ( \/ (child = "live" /\ child' = "exited")
          \/ (spawn = "pending" /\ spawn' = "done"
                /\ outcome'.kind = "SpawnFailed" /\ window' # window) )
            => /\ UNCHANGED gatevars
               /\ window' = "destroyed"
               /\ Count(log', "set_exit_status") = Reports + 1
               /\ Count(log', "unref") = Releases + 1
               /\ cli_status' = outcome'.value ]_vars

\* the child exited while the prompt was never shown: window gone, reported
C8_Witness ==
    /\ ended_by = "child_exited"
    /\ gate = "unasked"
    /\ dialog = "none"
    /\ window = "destroyed"
    /\ Reports = 1

\* C9 (as claimed): once a spawn completion carrying an error was delivered
\* to a session whose window was still there, the window is destroyed, the
\* error's code is the reported status and the reference is released.
C9_SpawnFailureTearsDown ==
    (outcome.kind = "SpawnFailed"
        /\ ended_by \notin {"delete_event", "close_window"})
        => /\ window = "destroyed"
           /\ Reports = 1
           /\ Releases = 1
           /\ cli_status = outcome.value

\* C10: one spawn request per session, issued at creation and never again:
\* not after a spawn failure and not after a child exit; a live child is the
\* child of that one request.
C10_SingleSpawn ==
    /\ spawns = (IF window = "none" THEN 0 ELSE 1)
    /\ (outcome.kind # "none" => spawn = "done")
    /\ (child # "none" => (spawns = 1 /\ spawn = "done"))

\* a failed spawn was delivered and the session is still open: no retry
C10_Witness ==
    /\ outcome.kind = "SpawnFailed"
    /\ window = "shown"
    /\ spawn = "done"
    /\ spawns = 1

\* the cell metrics of the terminal font in the current state
CellNow == get_char_metrics(font_size, font_scale)

\* window size minus grid extent, with the metrics of the current state
ChromeNow ==
    [owidth |-> win_size.width - grid.columns * CellNow.char_width,
     oheight |-> win_size.height - grid.rows * CellNow.char_height]

\* a step of key_press_event that dispatched a zoom in or a zoom out
ZoomStep ==
    /\ requests' # <<>>
    /\ \E keycode \in {KeycodeIncrease, KeycodeDecrease} :
          key_press_event({"control", "shift"}, keycode, "x")

\* a step of key_press_event that dispatched the reset
ResetStep ==
    /\ requests' # <<>>
    /\ key_press_event({"control", "shift"}, KeycodeReset, "x")

\* C11: a zoom in or out requests the window size rows * cell_height' +
\* chrome_height by columns * cell_width' + chrome_width, where the cell
\* metrics are those after the change and the chrome is the window size minus
\* grid times cell with the metrics before the change; hence the chrome is
\* the same before and after every zoom, and so after any sequence of them.
C11_ZoomKeepsChrome ==
    [][ZoomStep =>
          /\ requests' =
                <<[width |-> grid.columns * CellNow.char_width' + ChromeNow.owidth,
                   height |-> grid.rows * CellNow.char_height' + ChromeNow.oheight]>>
          /\ win_size' = requests'[1]
          /\ ChromeNow' = ChromeNow]_vars

C11_Witness ==
    /\ font_scale = 1
    /\ grid = Grids[1]
    /\ requests = <<[width |-> 720, height |-> 508]>>
    /\ win_size = requests[1]

\* C12: every resize operation (zoom in, zoom out and reset) samples the
\* chrome from the window size and the cell metrics of before the change,
\* strictly before the font scale or the font size is mutated; the chrome is
\* never computed from cell metrics read after the mutation.
C12_ChromeSampledBeforeMutation ==
    [][(ZoomStep \/ ResetStep) => offsets' = ChromeNow]_vars

\* C13: after any sequence of zooms, the reset sets the font scale to exactly
\* 1.0 (exponent 0) and leaves the size of the font description at the value
\* it had when the session was created: no step of a created session changes
\* that size.
C13_ResetRestoresScaleAndFont ==
    [][/\ font_size \in FontSizes => font_size' = font_size
       /\ ResetStep => font_scale' = 0 /\ font_size' \in FontSizes]_vars

C13_Witness ==
    /\ font_scale = 0
    /\ font_size \in FontSizes
    /\ Len(requests) = 2
    /\ requests[1] # [width |-> default_width, height |-> default_height]

\* C14: the reset, after any sequence of scale changes, requests the window
\* size grid * (cell metrics at scale 1.0 and the default font size) + chrome,
\* the chrome being the one the window had before the reset, whatever the
\* window size was.
C14_ResetRequestsDefaultFontGeometry ==
    [][ResetStep =>
          requests'[1] =
             [width |-> grid.columns * get_char_metrics(font_size, 0).char_width
                        + ChromeNow.owidth,
              height |-> grid.rows * get_char_metrics(font_size, 0).char_height
                         + ChromeNow.oheight]]_vars

\* C15: control+shift+Home resets the font scale and then sets the window to
\* 640x460 whatever the grid, the cell metrics and the window size before:
\* the last resize request of the command is 640x460.
C15_HomeEndsAt640x460 ==
    [][ResetStep =>
          /\ font_scale' = 0
          /\ requests'[Len(requests')] = [width |-> 640, height |-> 460]
          /\ win_size' = [width |-> 640, height |-> 460]]_vars

C15_Witness ==
    /\ font_scale = 0
    /\ grid = Grids[2]
    /\ Len(requests) = 2
    /\ requests[1].width > 640
    /\ requests[2] = [width |-> 640, height |-> 460]
    /\ win_size = requests[2]

\* a step of key_press_event on the event recorded in key_event'
RecordedKeyStep ==
    key_press_event(key_event'.state, key_event'.keycode, key_event'.keyval)

\* the key is a zoom or reset keycode, or 'c' or 'v' in either case
MappedKey(e) ==
    \/ e.keycode \in {KeycodeIncrease, KeycodeDecrease, KeycodeReset}
    \/ e.keyval \in {"c", "C", "v", "V"}

\* C16 as stated: a key press is handled if and only if the modifier state is
\* exactly control+shift and the key is a mapped one; every other key press,
\* a mapped key with an additional modifier included, is unhandled and
\* changes neither the font scale nor the window size.
C16_HandledIffExactlyControlShift ==
    [][RecordedKeyStep =>
          /\ handled' <=> (/\ key_event'.state = {"control", "shift"}
                           /\ MappedKey(key_event'))
          /\ ~handled' => font_scale' = font_scale /\ win_size' = win_size]_vars

\* C16, amended: a key press is handled if and only if the modifier state,
\* restricted to the default accelerator modifiers (the lock modifiers are
\* not among them), is exactly control+shift and the key is a mapped one;
\* every other key press is unhandled and changes neither the font scale nor
\* the window size.
C16_HandledIffMaskedControlShift ==
    [][RecordedKeyStep =>
          /\ handled' <=>
                (/\ key_event'.state \cap {"control", "shift", "mod1"}
                       = {"control", "shift"}
                 /\ MappedKey(key_event'))
          /\ ~handled' => font_scale' = font_scale /\ win_size' = win_size]_vars

C16_Witness ==
    /\ key_event.state = {"control", "shift", "lock"}
    /\ key_event.keycode = 54
    /\ key_event.keyval = "C"
    /\ handled

\* C17: when the cmd option is supplied, the argument vector of the spawn
\* request is exactly "/bin/sh", "-c", cmd.
C17_ArgvIsShDashC ==
    (spawn # "none" /\ cli_command # NULL) =>
        spawn_request.argv = <<"/bin/sh", "-c", cli_command>>

\* C18: the argument vector built for the option cmd is "/bin/sh", cmd (for
\* "echo hi": "/bin/sh", "echo hi"); without the option and with SHELL=s in
\* the environment of the invocation it is the single element s.
C18_ArgvIsShThenCommand ==
    spawn # "none" =>
        /\ cli_command = "echo hi" =>
              spawn_request.argv = <<"/bin/sh", "echo hi">>
        /\ cli_command # NULL =>
              spawn_request.argv = <<"/bin/sh", cli_command>>
        /\ cli_command = NULL =>
              \A i \in 1..(Len(cli_environ) - 1) :
                  heap[cli_environ[i]].val.name = "SHELL" =>
                      spawn_request.argv = <<heap[cli_environ[i]].val.value>>

C18_Witness ==
    /\ spawn = "pending"
    /\ cli_command = "echo hi"
    /\ spawn_request.argv = <<"/bin/sh", "echo hi">>

\* C19: the environment of the spawn request is a copy of the environment of
\* the invocation: the same number of strings, the same strings in the same
\* order, held in storage of its own, so that neither a change to the
\* environment of the invocation reaches the copy nor the release of the copy
\* the environment of the invocation.
C19_EnvironmentIsOwnCopy ==
    spawn # "none" =>
        /\ Len(spawn_request.envv) = Len(cli_environ) - 1
        /\ Len(spawn_request.envp) = Len(cli_environ)
        /\ \A i \in 1..(Len(cli_environ) - 1) :
              /\ heap[cli_environ[i]].live
              /\ spawn_request.envv[i] = heap[cli_environ[i]].val
              /\ \A j \in 1..(Len(cli_environ) - 1) :
                    spawn_request.envp[j] # cli_environ[i]

C19_Witness ==
    /\ spawn = "pending"
    /\ spawn_request.envv = Environs[2]
    /\ cli_environ = <<1, 2, NullAddr>>
    /\ spawn_request.envp = <<3, 4, NullAddr>>
    /\ heap[1].live /\ heap[2].live

\* C20: within one teardown the status is recorded first, then the reference
\* to the invocation context is released, and the window is destroyed last:
\* the context is never written after its release, and no part of the
\* teardown happens after the window destruction.
C20_TeardownOrder ==
    \A i \in DOMAIN log :
        /\ log[i] = "set_exit_status" =>
              /\ i + 2 <= Len(log)
              /\ log[i + 1] = "unref"
              /\ log[i + 2] = "destroy"
        /\ log[i] = "unref" =>
              /\ i > 1
              /\ log[i - 1] = "set_exit_status"
              /\ \A j \in DOMAIN log : j > i => log[j] # "set_exit_status"
        /\ log[i] = "destroy" =>
              \A j \in DOMAIN log :
                  j > i => log[j] \notin {"set_exit_status", "unref"}

C20_Witness ==
    /\ outcome.kind = "ChildExited"
    /\ log = <<"ref", "set_exit_status", "unref", "destroy">>

\* a step that delivers the spawn completion when the terminal is gone, so
\* that the callback receives a null terminal
NullTerminalStep ==
    /\ spawn = "pending"
    /\ spawn' = "done"
    /\ window # "shown"

\* C21: a notification that arrives with a null terminal is dropped: no exit
\* status is reported, the reference to the context is not released, the
\* window is not destroyed, no error reaches the exit status, and everything
\* the session holds is what it was before the notification.
C21_NullTerminalDropped ==
    [][NullTerminalStep =>
          /\ log' = log
          /\ cli_status' = cli_status
          /\ UNCHANGED <<window, window_cli, ended_by, process, exit_code>>
          /\ UNCHANGED <<gatevars, geometry, request, scaling>>]_vars

C21_Witness ==
    /\ window = "destroyed"
    /\ spawn = "done"
    /\ ready_pid = {0}
    /\ outcome.kind = "SpawnFailed"
    /\ Reports = 0
    /\ Releases = 0

\* C22: the key commands (zoom in, zoom out, reset, copy, paste) and the
\* unhandled key presses change nothing but font scale, font size and window
\* size: window, context, exit status, log of effects, spawn, child, outcome
\* and host process stay as they are, no spawn is requested, no teardown runs
\* and the confirmation prompt is neither opened nor answered.
C22_KeyCommandsFrame ==
    [][RecordedKeyStep =>
          /\ UNCHANGED <<window, window_cli, cli_status, log>>
          /\ UNCHANGED <<spawn, spawns, ready_pid, child, outcome>>
          /\ UNCHANGED <<ended_by, process, exit_code>>
          /\ UNCHANGED <<dialog, gate, response>>
          /\ UNCHANGED <<heap, cli_command, cli_environ, spawn_request, scaling>>]_vars

C22_Witness ==
    /\ key_event.keycode = KeycodeIncrease
    /\ handled
    /\ font_scale = 1
    /\ child = "live"
    /\ spawns = 1
    /\ log = <<"ref">>
    /\ dialog = "none"

\* the scale the terminal holds after a zoom-in followed by a zoom-out
ZoomInThenOut ==
    vte_terminal_set_font_scale(
        requested_font_scale(
            vte_terminal_set_font_scale(requested_font_scale(vte_font_scale, 1)),
            0 - 1))

\* C23 as stated: there is no clamp at either end: after i zoom-ins and j
\* zoom-outs in any order from scale 1.0 the requested scale is 1.125^(i-j),
\* for all i and j, and a zoom-in followed by a zoom-out returns to the scale
\* before.
C23_RequestedScaleIsPower ==
    /\ scale_requested = [anchor |-> "one", k |-> zoom_net]
    /\ ZoomInThenOut = vte_font_scale

\* C23, amended: the program requests the scale the terminal reports times or
\* divided by 1.125 and clamps nothing itself, but the terminal keeps its
\* scale within its limits.  As long as no request computed from scale 1.0
\* has been clamped, the requested scale is 1.125^(i-j); the scale held is
\* never outside the limits; a zoom-in followed by a zoom-out returns to the
\* scale before whenever the zoom-in stays within the upper limit.
C23_RequestedScaleIsPowerWithinLimits ==
    /\ scale_requested.anchor = "one" => scale_requested.k = zoom_net
    /\ vte_font_scale.anchor = "one" =>
          vte_font_scale = [anchor |-> "one", k |-> zoom_net]
    /\ ~AboveMax(vte_font_scale) /\ ~BelowMin(vte_font_scale)
    /\ ~AboveMax(requested_font_scale(vte_font_scale, 1)) =>
          ZoomInThenOut = vte_font_scale

C23_Witness ==
    /\ zoom_net = 11
    /\ scale_requested = [anchor |-> "one", k |-> 11]
    /\ vte_font_scale = scale_requested
    /\ AboveMax(requested_font_scale(vte_font_scale, 1))

\* a step in which the prompt is answered after a teardown destroyed the
\* window under it
LateAnswerStep ==
    /\ dialog = "open"
    /\ dialog' = "none"
    /\ window = "destroyed"

\* C24: when the child exits, or the spawn fails, while the confirmation
\* prompt is open, the teardown of that notification is the only one: one
\* report, one release, one destruction of the window; the later answer to
\* the prompt, "Yes" or "No" or any other, changes nothing of the session and
\* does not destroy the destroyed window again.
C24_TeardownUnderOpenPrompt ==
    [][/\ (/\ dialog = "open" /\ dialog' = "open"
           /\ window = "shown" /\ window' = "destroyed") =>
              /\ Count(log', "set_exit_status") = 1
              /\ Count(log', "unref") = 1
              /\ Count(log', "destroy") = 1
       /\ LateAnswerStep =>
              /\ log' = log
              /\ cli_status' = cli_status
              /\ UNCHANGED <<window, window_cli, ended_by, process, exit_code>>
              /\ UNCHANGED <<spawn, spawns, ready_pid, child, outcome>>
              /\ UNCHANGED <<geometry, request>>]_vars

C24_Witness ==
    /\ ended_by \in {"child_exited", "child_ready"}
    /\ dialog = "none"
    /\ response = "GTK_RESPONSE_YES"
    /\ gate = "proceed"
    /\ Reports = 1
    /\ Releases = 1
    /\ Destroys = 1

\* C25: the resize step of reset_font_size requests exactly the size the
\* window already has, for every grid, cell metrics and window size: the
\* font reset alone never changes the pixel size of the window.
C25_ResetFontSizeKeepsWindowSize ==
    [][ResetStep => requests'[1] = win_size]_vars

C25_Witness ==
    /\ font_scale = 0
    /\ grid = Grids[2]
    /\ Len(requests) = 2
    /\ requests[1] = [width |-> 720, height |-> 540]

\* C26 (as claimed): the argument vector handed to the spawn call is never
\* empty and its first element is a string, for every invocation, the one
\* without the cmd option and without SHELL in its environment included.
C26_ArgvNonEmpty ==
    spawn # "none" =>
        /\ Len(spawn_request.argv) >= 1
        /\ spawn_request.argv[1] # NULL

====
